---------------------------- MODULE Spec2Model ----------------------------
(***************************************************************************)
(* A model of app/services/llm_service.py (class LLMService): the alias    *)
(* table, the three recommendation operations, the prompt they build, the  *)
(* completion request they issue, and the parsing and validation of the    *)
(* provider's answer.                                                      *)
(*                                                                         *)
(* Text is modelled as a sequence of lexical pieces (tokens), so that      *)
(* str.strip, json.loads, "\n".join and the f-strings are computed and not *)
(* assumed; Python values are tagged records.                              *)
(***************************************************************************)
EXTENDS Integers, Sequences, FiniteSets, TLC

VARIABLES
    MODEL_MAPPING,  \* self.MODEL_MAPPING: alias -> model identifier
    environ,        \* os.environ, the keys the constructor installs
    artists,        \* the caller's artist catalog (a list object passed by reference)
    artist_tracks,  \* the caller's track catalog (a dict object passed by reference)
    pc,             \* per call: "idle", "awaiting" (blocked in completion()), "done"
    frame,          \* per call: the arguments of the running invocation
    requests,       \* per call: the completion requests the invocation has issued
    response,       \* per call: what completion() produced for it
    outcome,        \* per call: the value returned or the exception raised
    log             \* per call: the records the invocation handed to the logger

vars == <<MODEL_MAPPING, environ, artists, artist_tracks, pc, frame, requests,
          response, outcome, log>>

shared == <<MODEL_MAPPING, environ, artists, artist_tracks>>

-----------------------------------------------------------------------------
(* Bounds of the model.                                                    *)

\* Longest list of selections a generated provider document holds.
MaxItems == 2
\* Longest artist catalog.
MaxArtists == 2
\* Most genres of one artist.
MaxGenres == 2

-----------------------------------------------------------------------------
(* Python values.                                                          *)

PyNone == [t |-> "None"]
PyBool(b) == [t |-> "bool", b |-> b]
PyInt(n) == [t |-> "int", n |-> n]
PyStr(s) == [t |-> "str", s |-> s]
PyList(items) == [t |-> "list", items |-> items]
\* A dict: its items in insertion order, keys unique.
PyDict(pairs) == [t |-> "dict", pairs |-> pairs]

\* d[k] = v on the item list of a dict: an existing key keeps its place.
DictSet(pairs, k, v) ==
    IF \E i \in 1..Len(pairs) : pairs[i].key = k
    THEN [i \in 1..Len(pairs) |->
            IF pairs[i].key = k THEN [key |-> k, val |-> v] ELSE pairs[i]]
    ELSE Append(pairs, [key |-> k, val |-> v])

HasKey(d, k) == \E i \in 1..Len(d.pairs) : d.pairs[i].key = k

\* dict.get(k, default)
DictGet(d, k, default) ==
    IF HasKey(d, k)
    THEN d.pairs[CHOOSE i \in 1..Len(d.pairs) : d.pairs[i].key = k].val
    ELSE default

\* bool(v): what `if not v` tests.
Truthy(v) ==
    CASE v.t = "None" -> FALSE
      [] v.t = "bool" -> v.b
      [] v.t = "int" -> v.n # 0
      [] v.t = "str" -> v.s # ""
      [] v.t = "list" -> Len(v.items) > 0
      [] v.t = "dict" -> Len(v.pairs) > 0

-----------------------------------------------------------------------------
(* Text: a sequence of tokens.                                             *)

Tok(k, v) == [k |-> k, v |-> v]
P(c) == Tok("punct", c)     \* one of { } [ ] : ,
S(s) == Tok("str", s)       \* a double-quoted JSON string literal
N(d) == Tok("num", d)       \* a JSON number literal
L(w) == Tok("lit", w)       \* null, true, false
J(w) == Tok("junk", w)      \* any other run of characters (prose, a code fence)
SP == Tok("ws", " ")        \* whitespace that JSON also skips (space, \t, \n, \r)
FF == Tok("ws", "\\f")      \* whitespace only str.strip knows (\f, \v, ...)

IsSpace(tk) == tk.k = "ws"
IsJsonSpace(tk) == tk = SP

RECURSIVE lstrip(_)
lstrip(s) == IF s # <<>> /\ IsSpace(Head(s)) THEN lstrip(Tail(s)) ELSE s

RECURSIVE rstrip(_)
rstrip(s) ==
    IF s # <<>> /\ IsSpace(s[Len(s)]) THEN rstrip(SubSeq(s, 1, Len(s) - 1)) ELSE s

\* A faulty variant of strip: trims the left end only.
strip_left_only(s) == lstrip(s)

\* str.strip()
strip(s) == rstrip(lstrip(s))

-----------------------------------------------------------------------------
(* json.loads, as json.decoder / json.scanner compute it.                  *)

Ok(v, end) == [ok |-> TRUE, val |-> v, end |-> end]
Fail(msg, pos) == [ok |-> FALSE, msg |-> msg, pos |-> pos]

\* WHITESPACE.match(s, i).end()
RECURSIVE SkipWs(_, _)
SkipWs(s, i) == IF i <= Len(s) /\ IsJsonSpace(s[i]) THEN SkipWs(s, i + 1) ELSE i

At(s, i, tk) == i <= Len(s) /\ s[i] = tk

LitValue(w) ==
    CASE w = "null" -> PyNone
      [] w = "true" -> PyBool(TRUE)
      [] w = "false" -> PyBool(FALSE)

NumValue(d) == CASE d = "0" -> 0 [] d = "7" -> 7

RECURSIVE scan_once(_, _)
RECURSIVE ObjectMembers(_, _, _)
RECURSIVE ArrayElements(_, _, _)

\* JSONObject: i is the index after the opening brace.
JSONObject(s, i) ==
    LET j == SkipWs(s, i)
    IN  IF At(s, j, P("}")) THEN Ok(PyDict(<<>>), j + 1)
        ELSE ObjectMembers(s, j, <<>>)

ObjectMembers(s, j, pairs) ==
    IF j > Len(s) \/ s[j].k # "str"
    THEN Fail("Expecting property name enclosed in double quotes", j)
    ELSE LET c == SkipWs(s, j + 1)
         IN  IF ~At(s, c, P(":")) THEN Fail("Expecting ':' delimiter", c)
             ELSE LET r == scan_once(s, SkipWs(s, c + 1))
                  IN  IF ~r.ok THEN r
                      ELSE LET e == SkipWs(s, r.end)
                               np == DictSet(pairs, s[j].v, r.val)
                           IN  IF At(s, e, P("}")) THEN Ok(PyDict(np), e + 1)
                               ELSE IF At(s, e, P(","))
                               THEN ObjectMembers(s, SkipWs(s, e + 1), np)
                               ELSE Fail("Expecting ',' delimiter", e)

\* JSONArray: i is the index after the opening bracket.
JSONArray(s, i) ==
    LET j == SkipWs(s, i)
    IN  IF At(s, j, P("]")) THEN Ok(PyList(<<>>), j + 1)
        ELSE ArrayElements(s, j, <<>>)

ArrayElements(s, j, items) ==
    LET r == scan_once(s, j)
    IN  IF ~r.ok THEN r
        ELSE LET e == SkipWs(s, r.end)
                 ni == Append(items, r.val)
             IN  IF At(s, e, P("]")) THEN Ok(PyList(ni), e + 1)
                 ELSE IF At(s, e, P(","))
                 THEN ArrayElements(s, SkipWs(s, e + 1), ni)
                 ELSE Fail("Expecting ',' delimiter", e)

scan_once(s, i) ==
    IF i > Len(s) THEN Fail("Expecting value", i)
    ELSE CASE s[i].k = "str" -> Ok(PyStr(s[i].v), i + 1)
           [] s[i] = P("{") -> JSONObject(s, i + 1)
           [] s[i] = P("[") -> JSONArray(s, i + 1)
           [] s[i].k = "lit" -> Ok(LitValue(s[i].v), i + 1)
           [] s[i].k = "num" -> Ok(PyInt(NumValue(s[i].v)), i + 1)
           [] OTHER -> Fail("Expecting value", i)

\* json.JSONDecodeError(msg, doc, pos): a ValueError that keeps the document.
JSONDecodeError(msg, doc, pos) ==
    [cls |-> "JSONDecodeError", msg |-> msg, doc |-> doc, pos |-> pos]

Returned(v) == [kind |-> "return", val |-> v]
Raised(e) == [kind |-> "raise", exc |-> e]

\* json.loads(s) for a str s: the value, or the JSONDecodeError raised.
json_loads(s) ==
    LET r == scan_once(s, SkipWs(s, 1))
    IN  IF ~r.ok THEN Raised(JSONDecodeError(r.msg, s, r.pos))
        ELSE LET e == SkipWs(s, r.end)
             IN  IF e # Len(s) + 1 THEN Raised(JSONDecodeError("Extra data", s, e))
                 ELSE Returned(r.val)


-----------------------------------------------------------------------------
(* json.dumps: the documents the system prompts ask the provider for       *)
(* ({"artists": ["Artist1", ...]}, {"tracks": [{"artist": .., "title": ..}]})*)
(* are generated by serialising Python values.                             *)

RECURSIVE Dumps(_)
RECURSIVE DumpsItems(_)
RECURSIVE DumpsPairs(_)

DumpsItems(items) ==
    IF items = <<>> THEN <<>>
    ELSE Dumps(Head(items)) \o
         (IF Len(items) > 1 THEN <<P(","), SP>> ELSE <<>>) \o DumpsItems(Tail(items))

DumpsPairs(pairs) ==
    IF pairs = <<>> THEN <<>>
    ELSE <<S(Head(pairs).key), P(":"), SP>> \o Dumps(Head(pairs).val) \o
         (IF Len(pairs) > 1 THEN <<P(","), SP>> ELSE <<>>) \o DumpsPairs(Tail(pairs))

Dumps(v) ==
    CASE v.t = "None" -> <<L("null")>>
      [] v.t = "bool" -> <<L(IF v.b THEN "true" ELSE "false")>>
      [] v.t = "int" -> <<N(IF v.n = 0 THEN "0" ELSE "7")>>
      [] v.t = "str" -> <<S(v.s)>>
      [] v.t = "list" -> <<P("[")>> \o DumpsItems(v.items) \o <<P("]")>>
      [] v.t = "dict" -> <<P("{")>> \o DumpsPairs(v.pairs) \o <<P("}")>>

-----------------------------------------------------------------------------
(* Prompt construction.                                                    *)

T(s) == Tok("text", s)
NL == Tok("nl", "\\n")

\* sep.join(parts): parts is a sequence of texts.
RECURSIVE Join(_, _)
Join(sep, parts) ==
    IF parts = <<>> THEN <<>>
    ELSE IF Len(parts) = 1 THEN Head(parts)
    ELSE Head(parts) \o sep \o Join(sep, Tail(parts))

\* f"{a.name} - {', '.join(a.genres)}"
ArtistLine(a) ==
    <<T(a.name.s), T(" - ")>> \o Join(<<T(", ")>>, [i \in 1..Len(a.genres) |-> <<T(a.genres[i])>>])

HasName(a) == Truthy(a.name)

\* A faulty variant of the comprehension's filter: keeps every artist that has a name
\* attribute at all, the empty one included.
ArtistsWithNameNotNone(catalog) == SelectSeq(catalog, LAMBDA a : a.name.t = "str")

\* [ ... for a in artists if a.name ]
NamedArtists(catalog) == SelectSeq(catalog, HasName)

\* "Available artists and their genres:\n" + "\n".join([...])
artist_context(catalog) ==
    <<T("Available artists and their genres:"), NL>> \o
    Join(<<NL>>, [i \in 1..Len(NamedArtists(catalog)) |->
                    ArtistLine(NamedArtists(catalog)[i])])

RECURSIVE TrackLines(_)
TrackLines(tracks) ==
    IF tracks = <<>> THEN <<>>
    ELSE <<T("- "), T(Head(tracks).title), NL>> \o TrackLines(Tail(tracks))

RECURSIVE AlbumLines(_)
AlbumLines(albums) ==
    IF albums = <<>> THEN <<>>
    ELSE <<T("Album: "), T(Head(albums).name), NL>> \o TrackLines(Head(albums).tracks)
         \o AlbumLines(Tail(albums))

RECURSIVE ArtistBlocks(_)
ArtistBlocks(items) ==
    IF items = <<>> THEN <<>>
    ELSE <<NL, T(Head(items).artist), T(":"), NL>> \o AlbumLines(Head(items).albums)
         \o ArtistBlocks(Tail(items))

\* tracks_context, built by the loops over artist_tracks.items()
tracks_context(catalog) ==
    <<T("Available tracks by artist:"), NL>> \o ArtistBlocks(catalog)

\* f"Context: {context}\n\nCreate a playlist for: {prompt}"
UserMessage(context, prompt) ==
    <<T("Context: ")>> \o context \o <<NL, NL, T("Create a playlist for: "), T(prompt)>>

\* A faulty variant of the lookup: an alias outside the table falls back to the default model.
MODEL_MAPPING_get_default(mapping, model) ==
    IF model \in DOMAIN mapping THEN mapping[model] ELSE "gpt-4"

\* self.MODEL_MAPPING.get(model, model)
MODEL_MAPPING_get(mapping, model) ==
    IF model \in DOMAIN mapping THEN mapping[model] ELSE model

\* The arguments of completion(...).
Request(model_id, system_prompt, user, max_tokens) ==
    [model |-> model_id,
     messages |-> <<[role |-> "system", content |-> system_prompt],
                    [role |-> "user", content |-> user]>>,
     max_tokens |-> max_tokens,
     temperature |-> "0.7"]

get_recommendations_request(mapping, prompt, catalog, model) ==
    Request(MODEL_MAPPING_get(mapping, model), "music curator: 15-20 artists",
            UserMessage(artist_context(catalog), prompt), 1024)

get_artist_recommendations_request(mapping, prompt, catalog, model) ==
    Request(MODEL_MAPPING_get(mapping, model), "multilingual music curator: 10-15 artists",
            UserMessage(artist_context(catalog), prompt), 1024)

get_track_recommendations_request(mapping, prompt, catalog, model) ==
    Request(MODEL_MAPPING_get(mapping, model), "multilingual music curator: 20-30 tracks",
            UserMessage(tracks_context(catalog), prompt), 2048)


-----------------------------------------------------------------------------
(* Exceptions, log records, and what each operation does with the answer.  *)

ValueError(msg) == [cls |-> "ValueError", msg |-> msg]
AttributeError(msg) == [cls |-> "AttributeError", msg |-> msg]
TypeError(msg) == [cls |-> "TypeError", msg |-> msg]

\* str(e): a JSONDecodeError prints its message and position, not its document.
Str(e) ==
    IF e.cls = "JSONDecodeError" THEN [msg |-> e.msg, pos |-> e.pos] ELSE [msg |-> e.msg]

LogRec(level, fmt, arg) == [level |-> level, fmt |-> fmt, arg |-> arg]

\* What the body of an operation produces: its outcome and the records it logged.
Result(out, logs) == [out |-> out, log |-> logs]

\* The text of the provider's answer; message.content may also be None.
Text(toks) == [t |-> "text", toks |-> toks]

\* A faulty variant of the handler: logs the failure and answers with an empty list.
except_swallow(fmt, e, logs) ==
    Result(Returned(PyList(<<>>)), Append(logs, LogRec("error", fmt, Str(e))))

\* except Exception as e: logger.error(f"... failed: {str(e)}"); raise
except_Exception(fmt, e, logs) ==
    Result(Raised(e), Append(logs, LogRec("error", fmt, Str(e))))

\* result.get(field, []) on the decoded document: only a dict has .get.
result_get(result, field, fmt, logs) ==
    IF result.t # "dict"
    THEN except_Exception(fmt, AttributeError("object has no attribute 'get'"), logs)
    ELSE Result(Returned(DictGet(result, field, PyList(<<>>))), logs)

\* A faulty variant of the emptiness check: tests only for None.
IsEmptySelectionNoneOnly(selection) == selection = PyNone

\* `if not artists_list` / `if not tracks_list`
IsEmptySelection(selection) == ~Truthy(selection)

RECURSIVE Reverse(_)
Reverse(xs) == IF xs = <<>> THEN <<>> ELSE Append(Reverse(Tail(xs)), Head(xs))

\* A faulty variant of the success path: the selection is returned in reverse order.
selected_reversed(selection, fmt, logs) ==
    LET r == IF selection.t = "list" THEN PyList(Reverse(selection.items)) ELSE selection
    IN  Result(Returned(r), Append(logs, LogRec("info", fmt, r)))

\* logger.info(f"Selected ...: {selection}"); return selection
selected(selection, fmt, logs) ==
    Result(Returned(selection), Append(logs, LogRec("info", fmt, selection)))

\* The body shared, line for line, by get_artist_recommendations and
\* get_track_recommendations after completion() returned: strip, debug log,
\* json.loads, result.get, the emptiness check, the inner and outer handlers.
staged_parse(content, field, fmt, raw_fmt, parse_fmt, empty_msg, selected_fmt) ==
    IF content = PyNone
    THEN except_Exception(fmt, AttributeError("'NoneType' object has no attribute 'strip'"), <<>>)
    ELSE LET c == strip(content.toks)
             l1 == <<LogRec("debug", raw_fmt, c)>>
             r == json_loads(c)
         IN  IF r.kind = "raise"
             THEN except_Exception(fmt, r.exc,
                      l1 \o <<LogRec("error", parse_fmt, Str(r.exc)),
                              LogRec("error", "Received content: ", c)>>)
             ELSE LET g == result_get(r.val, field, fmt, l1)
                  IN  IF g.out.kind = "raise" THEN g
                      ELSE IF IsEmptySelection(g.out.val)
                      THEN except_Exception(fmt, ValueError(empty_msg), l1)
                      ELSE selected(g.out.val, selected_fmt, l1)

get_artist_recommendations_parse(content) ==
    staged_parse(content, "artists", "Artist recommendation failed: ",
                 "Raw LLM response: ", "Failed to parse JSON: ",
                 "No artists found in response", "Selected artists: ")

get_track_recommendations_parse(content) ==
    staged_parse(content, "tracks", "Track recommendation failed: ",
                 "Raw LLM response for track selection: ",
                 "Failed to parse JSON from track selection: ",
                 "No tracks found in response", "Selected tracks: ")

\* A faulty variant of get_recommendations: validates like the staged operations.
get_recommendations_parse_checked(content) ==
    staged_parse(content, "artists", "AI recommendation failed: ", "Raw LLM response: ",
                 "Failed to parse JSON: ", "No artists found in response",
                 "Selected artists: ")

\* get_recommendations after completion() returned: json.loads, result.get.
get_recommendations_parse(content) ==
    LET fmt == "AI recommendation failed: "
    IN  IF content = PyNone
        THEN except_Exception(fmt, TypeError("the JSON object must be str, not NoneType"), <<>>)
        ELSE LET r == json_loads(content.toks)
             IN  IF r.kind = "raise" THEN except_Exception(fmt, r.exc, <<>>)
                 ELSE result_get(r.val, "artists", fmt, <<>>)

FailFmt(op) ==
    CASE op = "get_recommendations" -> "AI recommendation failed: "
      [] op = "get_artist_recommendations" -> "Artist recommendation failed: "
      [] op = "get_track_recommendations" -> "Track recommendation failed: "

ExpectedField(op) == IF op = "get_track_recommendations" THEN "tracks" ELSE "artists"

-----------------------------------------------------------------------------
(* Construction.                                                           *)

\* LLMService.__init__(openai_key, anthropic_key)
LLMService_init(openai_key, anthropic_key) ==
    [environ |-> IF Truthy(anthropic_key)
                 THEN [OPENAI_API_KEY |-> openai_key, ANTHROPIC_API_KEY |-> anthropic_key.s]
                 ELSE [OPENAI_API_KEY |-> openai_key],
     MODEL_MAPPING |-> [alias \in {"gpt-4", "claude"} |->
                          IF alias = "gpt-4" THEN "gpt-4"
                          ELSE "anthropic/claude-3-5-sonnet-latest"]]

NoFrame == [op |-> "none"]
NoResponse == [kind |-> "none"]
NoOutcome == [kind |-> "none"]

InitWith(calls, keys, catalogs, track_catalogs) ==
    /\ \E k \in keys :
         /\ environ = LLMService_init("sk-openai", k).environ
         /\ MODEL_MAPPING = LLMService_init("sk-openai", k).MODEL_MAPPING
    /\ artists \in catalogs
    /\ artist_tracks \in track_catalogs
    /\ pc = [c \in calls |-> "idle"]
    /\ frame = [c \in calls |-> NoFrame]
    /\ requests = [c \in calls |-> <<>>]
    /\ response = [c \in calls |-> NoResponse]
    /\ outcome = [c \in calls |-> NoOutcome]
    /\ log = [c \in calls |-> <<>>]

-----------------------------------------------------------------------------
(* The operations.  An invocation runs to its call of completion(), blocks *)
(* there, and resumes when completion() returns or raises.                 *)

Start(c, op, prompt, model, request) ==
    /\ pc[c] = "idle"
    /\ pc' = [pc EXCEPT ![c] = "awaiting"]
    /\ frame' = [frame EXCEPT ![c] = [op |-> op, prompt |-> prompt, model |-> model]]
    /\ requests' = [requests EXCEPT ![c] = Append(@, request)]
    /\ UNCHANGED <<shared, response, outcome, log>>

get_recommendations(c, prompt, model) ==
    Start(c, "get_recommendations", prompt, model,
          get_recommendations_request(MODEL_MAPPING, prompt, artists, model))

\* A faulty variant of get_artist_recommendations: the resolved alias is memoised in
\* the table (self.MODEL_MAPPING.setdefault(model, model)).
get_artist_recommendations_memo(c, prompt, model) ==
    /\ pc[c] = "idle"
    /\ pc' = [pc EXCEPT ![c] = "awaiting"]
    /\ frame' = [frame EXCEPT ![c] = [op |-> "get_artist_recommendations",
                                      prompt |-> prompt, model |-> model]]
    /\ requests' = [requests EXCEPT ![c] =
          Append(@, get_artist_recommendations_request(MODEL_MAPPING, prompt, artists, model))]
    /\ MODEL_MAPPING' = [a \in DOMAIN MODEL_MAPPING \cup {model} |->
                            MODEL_MAPPING_get(MODEL_MAPPING, a)]
    /\ UNCHANGED <<environ, artists, artist_tracks, response, outcome, log>>

get_artist_recommendations(c, prompt, model) ==
    Start(c, "get_artist_recommendations", prompt, model,
          get_artist_recommendations_request(MODEL_MAPPING, prompt, artists, model))

get_track_recommendations(c, prompt, model) ==
    Start(c, "get_track_recommendations", prompt, model,
          get_track_recommendations_request(MODEL_MAPPING, prompt, artist_tracks, model))

Finish(c, resp, result) ==
    /\ pc' = [pc EXCEPT ![c] = "done"]
    /\ response' = [response EXCEPT ![c] = resp]
    /\ outcome' = [outcome EXCEPT ![c] = result.out]
    /\ log' = [log EXCEPT ![c] = result.log]
    /\ UNCHANGED <<shared, frame, requests>>

\* completion() returns a response whose first choice holds `content`.
completion_returns(c, content) ==
    /\ pc[c] = "awaiting"
    /\ Finish(c, [kind |-> "content", content |-> content],
              CASE frame[c].op = "get_recommendations" ->
                     get_recommendations_parse(content)
                [] frame[c].op = "get_artist_recommendations" ->
                     get_artist_recommendations_parse(content)
                [] frame[c].op = "get_track_recommendations" ->
                     get_track_recommendations_parse(content))

\* A faulty variant of the failure path: the request is issued again.
completion_raises_retry(c, e) ==
    /\ pc[c] = "awaiting"
    /\ requests' = [requests EXCEPT ![c] = Append(@, @[1])]
    /\ Len(requests[c]) < 2
    /\ UNCHANGED <<shared, pc, frame, response, outcome, log>>

\* completion() raises e: the operation's `except Exception` logs and re-raises.
completion_raises(c, e) ==
    /\ pc[c] = "awaiting"
    /\ Finish(c, [kind |-> "error", exc |-> e],
              except_Exception(FailFmt(frame[c].op), e, <<>>))


-----------------------------------------------------------------------------
(* Inputs.                                                                 *)

SeqsUpTo(X, n) == UNION {[1..k -> X] : k \in 0..n}

Pair(k, v) == [key |-> k, val |-> v]

Track(artist, title) == PyDict(<<Pair("artist", PyStr(artist)), Pair("title", PyStr(title))>>)

\* What a provider puts in a selection list: names, or {artist, title} records.
Elems == {PyStr("Artist 1"), PyStr("Artist 2"), Track("Artist 1", "Song 1")}

Selections == {PyList(l) : l \in SeqsUpTo(Elems, MaxItems)}

\* Values a provider may put under a field.
FieldValues ==
    Selections \cup
    {PyNone, PyBool(FALSE), PyBool(TRUE), PyInt(0), PyInt(7), PyStr(""), PyStr("Artist 1"),
     PyDict(<<>>), PyDict(<<Pair("name", PyStr("Artist 1"))>>)}

Fields == {"artists", "tracks", "other"}

\* JSON objects: no field, one field, or a second field before it.
ObjectDocs ==
    {PyDict(<<>>)} \cup
    {PyDict(<<Pair(k, v)>>) : k \in Fields, v \in FieldValues} \cup
    {PyDict(<<Pair("other", PyInt(7)), Pair(k, v)>>) : k \in {"artists", "tracks"},
                                                       v \in Selections}

\* Well-formed JSON whose top level is not an object.
NonObjectDocs == {v \in FieldValues : v.t # "dict"}

Docs == ObjectDocs \cup NonObjectDocs

GoodDoc == PyDict(<<Pair("artists", PyList(<<PyStr("Artist 1")>>)),
                    Pair("tracks", PyList(<<Track("Artist 1", "Song 1")>>))>>)

\* Texts that are not JSON, several of them holding a recoverable document.
Garbage ==
    {<<>>,
     <<J("not"), SP, J("json")>>,
     <<J("code fence"), SP>> \o Dumps(GoodDoc) \o <<SP, J("code fence")>>,
     <<J("Here"), SP, J("you"), SP, J("go:"), SP>> \o Dumps(GoodDoc),
     Dumps(GoodDoc) \o <<SP, J("Enjoy!")>>,
     Dumps(GoodDoc) \o <<SP>> \o Dumps(GoodDoc),
     SubSeq(Dumps(GoodDoc), 1, Len(Dumps(GoodDoc)) - 1),
     <<P("{"), S("artists"), P(":"), SP, P("["), S("Artist 1"), P(","), P("]"), P("}")>>,
     <<P("{"), S("artists"), SP, P("["), S("Artist 1"), P("]"), P("}")>>,
     <<P("{"), J("artists"), P(":"), SP, P("["), S("Artist 1"), P("]"), P("}")>>,
     <<P("{"), FF, S("artists"), P(":"), SP, P("["), S("Artist 1"), P("]"), P("}")>>,
     <<P("{"), S("artists"), P(":"), SP, P("["), J("Artist"), SP, J("1"), P("]"), P("}")>>}

\* Well-formed texts json.dumps does not produce: a repeated key, inner spacing.
OddTexts ==
    {<<P("{"), S("artists"), P(":"), P("["), S("Artist 1"), P("]"), P(","),
       S("artists"), P(":"), P("["), S("Artist 2"), P("]"), P("}")>>,
     <<P("{"), SP, S("tracks"), SP, P(":"), SP, P("["), SP, S("Artist 2"), SP, P(","),
       SP, S("Artist 1"), SP, P("]"), SP, P("}")>>}

Pads == {<<>>, <<SP>>, <<FF>>}

Padded(bodies) == {lead \o b \o trail : lead \in Pads, trail \in Pads, b \in bodies}

DocTexts == {[doc |-> v, toks |-> Dumps(v)] : v \in Docs}

\* message.content over the full input space.
Contents ==
    {Text(x) : x \in Padded({d.toks : d \in DocTexts} \cup Garbage \cup OddTexts)}
    \cup {PyNone}

\* message.content where the answer is not what a run is about.
FewContents ==
    {Text(Dumps(GoodDoc)), Text(<<SP>> \o Dumps(PyDict(<<>>)) \o <<FF>>),
     Text(<<J("not"), SP, J("json")>>)}

\* What completion() raises: litellm's exceptions derive from Exception.
TransportErrors ==
    {[cls |-> "APIConnectionError", msg |-> "connection refused"],
     [cls |-> "AuthenticationError", msg |-> "invalid api key"],
     [cls |-> "RateLimitError", msg |-> "quota exceeded"]}

Aliases == {"gpt-4", "claude", "custom-model-x"}

Prompts == {"rock playlist"}

Artist(id, name, genres) == [id |-> id, name |-> name, genres |-> genres]

GenreNames == <<"Rock", "Pop", "Jazz", "Folk">>

\* An artist's name is a string, possibly empty, or missing.
ArtistKinds ==
    {Artist("id", name, SubSeq(GenreNames, 1, n)) :
        name \in {PyNone, PyStr(""), PyStr("Artist 1"), PyStr("Artist 2")},
        n \in 0..MaxGenres}

Catalogs == SeqsUpTo(ArtistKinds, MaxArtists)

\* The catalog of the endpoint tests.
TestCatalog == <<Artist("1", PyStr("Artist 1"), <<"Rock">>),
                 Artist("2", PyStr("Artist 2"), <<"Pop">>)>>

TestTracks ==
    <<[artist |-> "Artist 1",
       albums |-> <<[name |-> "Album 1", tracks |-> <<[title |-> "Song 1"], [title |-> "Song 2"]>>]>>],
      [artist |-> "Artist 2",
       albums |-> <<[name |-> "Album 2", tracks |-> <<[title |-> "Song 3"]>>],
                    [name |-> "Album 3", tracks |-> <<>>]>>]>>

TrackCatalogs == {<<>>, TestTracks}

AnthropicKeys == {PyNone, PyStr(""), PyStr("sk-ant")}

-----------------------------------------------------------------------------
(* Specifications.                                                         *)

Calls == DOMAIN pc

OneContent == {Text(Dumps(GoodDoc))}

OneError == {CHOOSE e \in TransportErrors : TRUE}

\* One invocation at a time, over the full space of provider answers.
Init == InitWith({1}, {PyNone, PyStr("sk-ant")}, {TestCatalog}, {TestTracks})

Next ==
    \/ \E c \in Calls, prompt \in Prompts, model \in {"gpt-4"} :
           get_recommendations(c, prompt, model)
    \/ \E c \in Calls, prompt \in Prompts, model \in {"gpt-4"} :
           get_artist_recommendations(c, prompt, model)
    \/ \E c \in Calls, prompt \in Prompts, model \in {"gpt-4"} :
           get_track_recommendations(c, prompt, model)
    \/ \E c \in Calls, content \in Contents : completion_returns(c, content)
    \/ \E c \in Calls, e \in TransportErrors : completion_raises(c, e)

Spec == Init /\ [][Next]_vars

\* One invocation at a time, over the full space of catalogs and aliases.
InitPrompt == InitWith({1}, {PyStr("sk-ant")}, Catalogs, {TestTracks})

NextPrompt ==
    \/ \E c \in Calls, prompt \in Prompts, model \in Aliases :
           get_recommendations(c, prompt, model)
    \/ \E c \in Calls, prompt \in Prompts, model \in Aliases :
           get_artist_recommendations(c, prompt, model)
    \/ \E c \in Calls, prompt \in Prompts, model \in Aliases :
           get_track_recommendations(c, prompt, model)
    \/ \E c \in Calls, content \in OneContent : completion_returns(c, content)
    \/ \E c \in Calls, e \in OneError : completion_raises(c, e)

SpecPrompt == InitPrompt /\ [][NextPrompt]_vars

\* Most invocations in flight on one service instance.
MaxCalls == 2

\* Concurrent invocations on one service instance.
InitConc == InitWith(1..MaxCalls, AnthropicKeys, {TestCatalog}, TrackCatalogs)

NextConc ==
    \/ \E c \in Calls, prompt \in Prompts, model \in {"claude", "custom-model-x"} :
           get_recommendations(c, prompt, model)
    \/ \E c \in Calls, prompt \in Prompts, model \in {"claude", "custom-model-x"} :
           get_artist_recommendations(c, prompt, model)
    \/ \E c \in Calls, prompt \in Prompts, model \in {"claude", "custom-model-x"} :
           get_track_recommendations(c, prompt, model)
    \/ \E c \in Calls, content \in FewContents : completion_returns(c, content)
    \/ \E c \in Calls, e \in OneError : completion_raises(c, e)

SpecConc == InitConc /\ [][NextConc]_vars

-----------------------------------------------------------------------------
(* Properties.                                                             *)

Staged(c) == frame[c].op \in {"get_artist_recommendations", "get_track_recommendations"}

\* The invocation is over and completion() had returned a text.
DoneWithText(c) ==
    pc[c] = "done" /\ response[c].kind = "content" /\ response[c].content # PyNone

RawText(c) == response[c].content.toks

\* `toks` without its leading and trailing whitespace.
Trimmed(toks) ==
    LET inked == {i \in 1..Len(toks) : toks[i].k # "ws"}
    IN  IF inked = {} THEN <<>>
        ELSE SubSeq(toks, CHOOSE i \in inked : \A j \in inked : i <= j,
                          CHOOSE i \in inked : \A j \in inked : i >= j)

\* The text handed to the parsing step of a staged operation.
Stripped(c) == Trimmed(RawText(c))

EmptyMsg(c) ==
    IF frame[c].op = "get_track_recommendations" THEN "No tracks found in response"
    ELSE "No artists found in response"

\* The three outcomes the parsing contract names.
IsSuccess(c) ==
    outcome[c].kind = "return" /\ outcome[c].val.t = "list" /\ Len(outcome[c].val.items) > 0
IsEmptyResult(c) == outcome[c] = Raised(ValueError(EmptyMsg(c)))
IsMalformedResponse(c) ==
    outcome[c].kind = "raise" /\ outcome[c].exc.cls = "JSONDecodeError"

\* The documents whose serialisation is the text `toks`.
DocsOf(toks) == {d \in DocTexts : d.toks = toks}

\* The document holds a non-empty list under `field`.
HoldsSelection(doc, field) ==
    /\ doc.t = "dict"
    /\ \E i \in 1..Len(doc.pairs) :
          /\ doc.pairs[i].key = field
          /\ doc.pairs[i].val.t = "list"
          /\ Len(doc.pairs[i].val.items) > 0

\* The document is an object in which `field` is absent or an empty list.
LacksSelection(doc, field) ==
    /\ doc.t = "dict"
    /\ \A i \in 1..Len(doc.pairs) :
          doc.pairs[i].key = field => doc.pairs[i].val = PyList(<<>>)

\* C1: for every text handed to the parsing step of a staged operation,
\* exactly one of: a non-empty sequence is returned, EmptyResult is raised,
\* MalformedResponse is raised; EmptyResult iff the text is well formed and
\* holds no non-empty list under the field (absent, empty, null, not a list,
\* top level not an object); MalformedResponse iff the text is not valid JSON.
C1_ParseOutcomes ==
    \A c \in Calls :
        (DoneWithText(c) /\ Staged(c)) =>
            LET wellFormed == json_loads(Stripped(c)).kind = "return"
                holds == \E d \in DocsOf(Stripped(c)) :
                            HoldsSelection(d.doc, ExpectedField(frame[c].op))
            IN  /\ IsSuccess(c) \/ IsEmptyResult(c) \/ IsMalformedResponse(c)
                /\ ~(IsSuccess(c) /\ IsEmptyResult(c))
                /\ ~(IsSuccess(c) /\ IsMalformedResponse(c))
                /\ ~(IsEmptyResult(c) /\ IsMalformedResponse(c))
                /\ IsMalformedResponse(c) <=> ~wellFormed
                /\ (DocsOf(Stripped(c)) # {}) =>
                      (IsEmptyResult(c) <=> ~holds)

\* C2: a staged operation that returns normally returns a non-empty value,
\* and a document with an empty or absent selection ends in a raised failure.
C2_NeverEmptyOnSuccess ==
    \A c \in Calls :
        (pc[c] = "done" /\ Staged(c)) =>
            /\ outcome[c].kind = "return" =>
                  /\ outcome[c].val \notin {PyNone, PyList(<<>>), PyDict(<<>>), PyStr("")}
                  /\ outcome[c].val.t = "list" => Len(outcome[c].val.items) >= 1
            /\ (response[c].kind = "content" /\ response[c].content # PyNone) =>
                  \A d \in DocsOf(Stripped(c)) :
                      LacksSelection(d.doc, ExpectedField(frame[c].op)) =>
                          outcome[c].kind = "raise"

C2_Witness ==
    \E c \in Calls :
        /\ pc[c] = "done" /\ frame[c].op = "get_artist_recommendations"
        /\ response[c].kind = "content"
        /\ response[c].content = Text(Dumps(PyDict(<<Pair("artists", PyList(<<>>))>>)))
        /\ outcome[c] = Raised(ValueError("No artists found in response"))

\* C3 as stated: the JSON decode failure of a staged operation carries the
\* text exactly as the provider returned it.
C3_RawTextVerbatim ==
    \A c \in Calls :
        (DoneWithText(c) /\ Staged(c) /\ IsMalformedResponse(c)) =>
            outcome[c].exc.doc = RawText(c)

\* C3 amended: when the stripped text cannot be parsed the staged operation
\* raises the JSON decode failure, which carries the text with its surrounding
\* whitespace stripped, logs that same text, and returns no list even when a
\* document could be recovered from the text.
C3_StrippedTextCarried ==
    \A c \in Calls :
        (DoneWithText(c) /\ Staged(c)) =>
            /\ IsMalformedResponse(c) =>
                  /\ outcome[c].exc.doc = Stripped(c)
                  /\ \E i \in 1..Len(log[c]) :
                        log[c][i] = LogRec("error", "Received content: ", Stripped(c))
            /\ Stripped(c) \in Garbage =>
                  /\ IsMalformedResponse(c)
                  /\ outcome[c].exc.doc = Stripped(c)

C3_Witness ==
    \E c \in Calls :
        /\ DoneWithText(c) /\ Staged(c) /\ IsMalformedResponse(c)
        /\ RawText(c) = <<SP, J("code fence"), SP>> \o Dumps(GoodDoc) \o <<SP, J("code fence"), FF>>
        /\ outcome[c].exc.doc # RawText(c)

\* C4: an invocation has issued no request before it starts and exactly one
\* from then on, whatever its outcome; no outcome exists without the request.
C4_ExactlyOneRequest ==
    \A c \in Calls :
        /\ pc[c] = "idle" => (Len(requests[c]) = 0 /\ outcome[c] = NoOutcome)
        /\ pc[c] = "awaiting" => (Len(requests[c]) = 1 /\ outcome[c] = NoOutcome)
        /\ pc[c] = "done" => (Len(requests[c]) = 1 /\ outcome[c] # NoOutcome)

C4_Witness ==
    \E c \in Calls :
        /\ pc[c] = "done" /\ response[c].kind = "error"
        /\ outcome[c].kind = "raise" /\ Len(requests[c]) = 1

\* The failure was logged by the operation's handler as the last record.
LoggedLast(c) ==
    /\ log[c] # <<>>
    /\ log[c][Len(log[c])] = LogRec("error", FailFmt(frame[c].op), Str(outcome[c].exc))

\* The text the operation parses: the staged operations strip it first.
ParsedText(c) == IF Staged(c) THEN Stripped(c) ELSE RawText(c)

\* C5: a failed completion call, an unparseable answer or a failed emptiness
\* check ends in a raise, never a return; a completion failure is raised as
\* the same error; every raise is preceded by its error record in the log.
C5_FailuresAreRaised ==
    \A c \in Calls :
        pc[c] = "done" =>
            /\ response[c].kind = "error" => outcome[c] = Raised(response[c].exc)
            /\ (response[c].kind = "content" /\ response[c].content = PyNone) =>
                  outcome[c].kind = "raise"
            /\ (DoneWithText(c) /\ ParsedText(c) \in Garbage) => outcome[c].kind = "raise"
            /\ (DoneWithText(c) /\ Staged(c)) =>
                  \A d \in DocsOf(ParsedText(c)) :
                      LacksSelection(d.doc, ExpectedField(frame[c].op)) =>
                          outcome[c].kind = "raise"
            /\ outcome[c].kind \in {"return", "raise"}
            /\ outcome[c].kind = "raise" => LoggedLast(c)

C5_Witness ==
    \E c \in Calls :
        /\ pc[c] = "done" /\ response[c].kind = "error"
        /\ outcome[c] = Raised(response[c].exc) /\ LoggedLast(c)

\* C6: on success a staged operation returns exactly the list the document
\* holds under the expected field: same elements, same length, same order.
C6_SelectionReturnedAsIs ==
    \A c \in Calls :
        (DoneWithText(c) /\ Staged(c)) =>
            \A d \in DocsOf(Stripped(c)) :
                d.doc.t = "dict" =>
                    \A i \in 1..Len(d.doc.pairs) :
                        /\ (outcome[c].kind = "return"
                              /\ d.doc.pairs[i].key = ExpectedField(frame[c].op)) =>
                              outcome[c].val = d.doc.pairs[i].val
                        /\ (d.doc.pairs[i].key = ExpectedField(frame[c].op)
                              /\ d.doc.pairs[i].val.t = "list"
                              /\ Len(d.doc.pairs[i].val.items) > 0) =>
                              outcome[c] = Returned(d.doc.pairs[i].val)

C6_Witness ==
    \E c \in Calls :
        /\ pc[c] = "done" /\ frame[c].op = "get_artist_recommendations"
        /\ response[c].kind = "content"
        /\ response[c].content =
              Text(Dumps(PyDict(<<Pair("artists",
                                      PyList(<<PyStr("Artist 2"), PyStr("Artist 1")>>))>>)))
        /\ outcome[c] = Returned(PyList(<<PyStr("Artist 2"), PyStr("Artist 1")>>))

\* C7: in all three operations the request carries the resolved model:
\* "gpt-4" for "gpt-4", the provider-prefixed identifier (which is not
\* "claude") for "claude", and any other alias unchanged.
C7_ModelResolution ==
    \A c \in Calls :
        pc[c] # "idle" =>
            /\ Len(requests[c]) >= 1
            /\ LET sent == requests[c][1].model
                   alias == frame[c].model
               IN  /\ alias = "gpt-4" => sent = "gpt-4"
                   /\ alias = "claude" =>
                         (sent = "anthropic/claude-3-5-sonnet-latest" /\ sent # "claude")
                   /\ alias \notin {"gpt-4", "claude"} => sent = alias

C7_Witness ==
    \E c \in Calls :
        /\ pc[c] = "awaiting" /\ frame[c].op = "get_track_recommendations"
        /\ frame[c].model = "custom-model-x"
        /\ requests[c][1].model = "custom-model-x"

\* Does the artist have a non-empty name?
Named(a) == a.name # PyNone /\ a.name.s # ""

RECURSIVE CommaJoined(_)
CommaJoined(genres) ==
    IF genres = <<>> THEN <<>>
    ELSE <<T(Head(genres))>> \o
         (IF Len(genres) > 1 THEN <<T(", ")>> \o CommaJoined(Tail(genres)) ELSE <<>>)

\* The lines '<name> - <comma-joined genres>' of the named artists, in order.
RECURSIVE ExpectedLines(_)
ExpectedLines(catalog) ==
    IF catalog = <<>> THEN <<>>
    ELSE (IF Named(Head(catalog))
          THEN <<<<T(Head(catalog).name.s), T(" - ")>> \o CommaJoined(Head(catalog).genres)>>
          ELSE <<>>) \o ExpectedLines(Tail(catalog))

\* The lines of a text (str.splitlines: a final newline ends the last line).
RECURSIVE SplitLines(_, _)
SplitLines(text, line) ==
    IF text = <<>> THEN (IF line = <<>> THEN <<>> ELSE <<line>>)
    ELSE IF Head(text) = NL THEN <<line>> \o SplitLines(Tail(text), <<>>)
    ELSE SplitLines(Tail(text), Append(line, Head(text)))

RECURSIVE CountNamed(_)
CountNamed(catalog) ==
    IF catalog = <<>> THEN 0
    ELSE (IF Named(Head(catalog)) THEN 1 ELSE 0) + CountNamed(Tail(catalog))

\* The context block inside the user message
\* "Context: <block>\n\nCreate a playlist for: <prompt>".
ContextBlockOf(user) == SubSeq(user, 2, Len(user) - 4)

\* C8: the artist context block sent in the user message is the header line
\* followed by exactly one line '<name> - <genres>' per named artist, in
\* catalog order, and nothing for an artist whose name is empty or missing.
C8_ContextLines ==
    \A c \in Calls :
        (pc[c] # "idle"
            /\ frame[c].op \in {"get_artist_recommendations", "get_recommendations"}) =>
            LET user == requests[c][1].messages[2].content
                lines == SplitLines(ContextBlockOf(user), <<>>)
            IN  /\ requests[c][1].messages[2].role = "user"
                /\ user[1] = T("Context: ")
                /\ SubSeq(user, Len(user) - 3, Len(user)) =
                      <<NL, NL, T("Create a playlist for: "), T(frame[c].prompt)>>
                /\ lines = <<<<T("Available artists and their genres:")>>>>
                              \o ExpectedLines(artists)
                /\ Len(lines) - 1 = CountNamed(artists)

C8_Witness ==
    \E c \in Calls :
        /\ pc[c] = "awaiting" /\ frame[c].op = "get_artist_recommendations"
        /\ Len(artists) = 2
        /\ artists[1].name = PyStr("") /\ artists[2].name = PyStr("Artist 1")
        /\ Len(artists[2].genres) = 2

\* Two finished invocations with the same arguments and the same provider
\* response have the same outcome.
SameInputsSameOutcome ==
    \A c, d \in Calls :
        (pc[c] = "done" /\ pc[d] = "done" /\ frame[c] = frame[d]
            /\ response[c] = response[d]) => outcome[c] = outcome[d]

\* C9: under any interleaving no operation writes the alias table, the
\* environment or the caller's catalogs, and the outcome of an invocation is
\* determined by its own arguments and its own provider response.
C9_NoSharedWrites == [][shared' = shared]_vars /\ []SameInputsSameOutcome

C9_Witness ==
    /\ \A c \in Calls : pc[c] = "done"
    /\ \E c, d \in Calls :
          /\ c # d
          /\ frame[c].op = "get_artist_recommendations"
          /\ frame[d].op = "get_track_recommendations"
          /\ outcome[c].kind = "return" /\ outcome[d].kind = "raise"
    /\ MODEL_MAPPING = LLMService_init("sk-openai", PyNone).MODEL_MAPPING
    /\ artists = TestCatalog /\ artist_tracks = TestTracks

\* `toks` with JSON whitespace around it, or none.
JsonPadded(toks) == {lead \o toks \o trail : lead \in {<<>>, <<SP>>}, trail \in {<<>>, <<SP>>}}

\* C10: get_recommendations has no emptiness check: given a well-formed JSON
\* object whose 'artists' field is absent or an empty list it returns the
\* empty list instead of raising.
C10_SingleStageReturnsEmpty ==
    \A c \in Calls :
        (DoneWithText(c) /\ frame[c].op = "get_recommendations") =>
            \A d \in DocTexts :
                (LacksSelection(d.doc, "artists") /\ RawText(c) \in JsonPadded(d.toks)) =>
                    outcome[c] = Returned(PyList(<<>>))

C10_Witness ==
    \E c \in Calls :
        /\ DoneWithText(c) /\ frame[c].op = "get_recommendations"
        /\ RawText(c) = Dumps(PyDict(<<Pair("artists", PyList(<<>>))>>))
        /\ outcome[c] = Returned(PyList(<<>>))

=============================================================================
